---------------------------- MODULE Spec2Model ----------------------------
(***************************************************************************)
(* Model of the two policy precomputers of dice_decathlon:                 *)
(*   src/solvers/decathlon_100m_precompute.cpp  (the sprint, "100m")       *)
(*   src/solvers/longjump_precompute.cpp        (the long jump)            *)
(*                                                                         *)
(* Both programs compute with C++ double.  The moments are therefore       *)
(* modelled as IEEE-754 binary64 values with round-to-nearest-even, built  *)
(* from 14-bit limbs so that every intermediate fits TLC's integers.       *)
(***************************************************************************)
EXTENDS Integers, Sequences, FiniteSets, TLC

(***************************************************************************)
(* binary64 arithmetic.                                                    *)
(* A finite double is <<sg, ex, a3, a2, a1, a0>>: its value is             *)
(*   sg * (a3*2^42 + a2*2^28 + a1*2^14 + a0) * 2^ex                        *)
(* with sg in {-1,1} and 2^52 <= mantissa < 2^53; zero is <<0,0,0,0,0,0>>. *)
(* The programs never produce an infinity, a NaN, a subnormal or -0.0.     *)
(***************************************************************************)
LimbBits == 14
Base == 2 ^ LimbBits
MantBits == 53
TopMin == 2 ^ (MantBits - 3 * LimbBits - 1)
NLimbs == 10

Min2(a, b) == IF a <= b THEN a ELSE b
Max2(a, b) == IF a >= b THEN a ELSE b

\* TLC re-evaluates an operator argument wherever a function constructor or a
\* recursion uses it, but binds a quantified identifier to a value.  The
\* definitions below therefore name their intermediate results by binding
\* them in singleton sets:  The({F(v) : v \in {e}})  is  LET v == e IN F(v).
The(S) == CHOOSE r \in S : TRUE

DZero == <<0, 0, 0, 0, 0, 0>>
IsZero(x) == x[1] = 0

RECURSIVE BitLen(_)
\* Number of bits of a limb value v >= 0 (0 for v = 0).
BitLen(v) == IF v = 0 THEN 0 ELSE 1 + BitLen(v \div 2)

\* Limb i (1-based, little-endian) of a limb sequence, 0 beyond its length.
Limb(N, i) == IF i >= 1 /\ i <= Len(N) THEN N[i] ELSE 0

RECURSIVE TopFrom(_, _)
\* Index of the highest non-zero limb among N[1..i] (0 when there is none).
TopFrom(N, i) == IF i = 0 THEN 0 ELSE IF N[i] # 0 THEN i ELSE TopFrom(N, i - 1)

BigBitLen(N) ==
    The({ IF t = 0 THEN 0 ELSE LimbBits * (t - 1) + BitLen(N[t])
          : t \in {TopFrom(N, Len(N))} })

\* N shifted right by sh bits (truncating), as NLimbs limbs.
BigShr(N, sh) ==
    The({ [i \in 1..NLimbs |->
              (Limb(N, i + q) \div p) + (Limb(N, i + q + 1) % p) * r]
          : <<q, p, r>> \in {<<sh \div LimbBits, 2 ^ (sh % LimbBits),
                               2 ^ (LimbBits - (sh % LimbBits))>>} })

\* N shifted left by sh bits, as NLimbs limbs (the caller keeps it in range).
BigShl(N, sh) ==
    The({ [i \in 1..NLimbs |->
              (Limb(N, i - q) % r) * p + (Limb(N, i - q - 1) \div r)]
          : <<q, p, r>> \in {<<sh \div LimbBits, 2 ^ (sh % LimbBits),
                               2 ^ (LimbBits - (sh % LimbBits))>>} })

\* TRUE iff some of the sh lowest bits of N is set.
LowBitsSet(N, sh) ==
    \/ \E i \in 1..(sh \div LimbBits) : Limb(N, i) # 0
    \/ Limb(N, (sh \div LimbBits) + 1) % (2 ^ (sh % LimbBits)) # 0

\* Bit number b (0-based) of N.
BigBit(N, b) == (Limb(N, (b \div LimbBits) + 1) \div (2 ^ (b % LimbBits))) % 2

RECURSIVE CarryFrom(_, _, _)
\* Propagate carries through the columns C[i..] with incoming carry c.
CarryFrom(C, i, c) ==
    IF i > Len(C) THEN <<>>
    ELSE The({ <<t % Base>> \o CarryFrom(C, i + 1, t \div Base)
               : t \in {C[i] + c} })

BigAdd(N, M) == CarryFrom([i \in 1..NLimbs |-> Limb(N, i) + Limb(M, i)], 1, 0)

RECURSIVE BorrowFrom(_, _, _, _)
BorrowFrom(N, M, i, b) ==
    IF i > NLimbs THEN <<>>
    ELSE The({ IF t < 0 THEN <<t + Base>> \o BorrowFrom(N, M, i + 1, 1)
                        ELSE <<t>> \o BorrowFrom(N, M, i + 1, 0)
               : t \in {Limb(N, i) - Limb(M, i) - b} })

\* N - M for N >= M.
BigSub(N, M) == BorrowFrom(N, M, 1, 0)

RECURSIVE CmpFrom(_, _, _)
CmpFrom(N, M, i) ==
    IF i = 0 THEN 0
    ELSE IF Limb(N, i) < Limb(M, i) THEN -1
    ELSE IF Limb(N, i) > Limb(M, i) THEN 1
    ELSE CmpFrom(N, M, i - 1)

\* -1, 0, 1 as N <, =, > M.
BigCmp(N, M) == CmpFrom(N, M, Max2(Len(N), Len(M)))

\* The product of two 4-limb numbers, as 8 limbs.
BigMul(a, b) ==
    CarryFrom(<<a[1] * b[1],
                a[1] * b[2] + a[2] * b[1],
                a[1] * b[3] + a[2] * b[2] + a[3] * b[1],
                a[1] * b[4] + a[2] * b[3] + a[3] * b[2] + a[4] * b[1],
                a[2] * b[4] + a[3] * b[3] + a[4] * b[2],
                a[3] * b[4] + a[4] * b[3],
                a[4] * b[4],
                0>>, 1, 0)

\* T (53 bits at most, in limbs 1..4) rounded up by one when up; E is the
\* exponent of its last place.
RoundUp(sg, E, T, up) ==
    IF ~up THEN <<sg, E, T[4], T[3], T[2], T[1]>>
    ELSE IF T[1] + 1 < Base THEN <<sg, E, T[4], T[3], T[2], T[1] + 1>>
    ELSE The({ IF U[4] >= 2 * TopMin
               THEN <<sg, E + 1, TopMin, 0, 0, 0>>
               ELSE <<sg, E, U[4], U[3], U[2], U[1]>>
               : U \in {BigAdd(T, <<1>>)} })

\* Round to nearest, ties to even, dropping the sh >= 1 lowest bits of N.
RoundShr(sg, E, N, sticky, sh) ==
    The({ RoundUp(sg, E + sh, T,
                  /\ BigBit(N, sh - 1) = 1
                  /\ (sticky \/ LowBitsSet(N, sh - 1) \/ T[1] % 2 = 1))
          : T \in {BigShr(N, sh)} })

RoundLen(sg, E, N, sticky, L) ==
    IF L = 0 THEN DZero
    ELSE IF L <= MantBits
    THEN The({ <<sg, E - (MantBits - L), S[4], S[3], S[2], S[1]>>
               : S \in {BigShl(N, MantBits - L)} })
    ELSE RoundShr(sg, E, N, sticky, L - MantBits)

\* The double nearest to sg * (N + f) * 2^E, ties to even, where N is a limb
\* sequence and 0 <= f < 1 is non-zero iff sticky (sticky only with more than
\* 53 bits in N).
Round(sg, E, N, sticky) ==
    The({ RoundLen(sg, E, n, sticky, BigBitLen(n)) : n \in {N} })

Mant(x) == <<x[6], x[5], x[4], x[3]>>

\* double(n) for an int n with |n| < 2^28.
FromInt(n) ==
    IF n = 0 THEN DZero
    ELSE IF n < 0 THEN Round(-1, 0, <<(-n) % Base, (-n) \div Base>>, FALSE)
    ELSE Round(1, 0, <<n % Base, n \div Base>>, FALSE)

DNeg(x) == <<-x[1], x[2], x[3], x[4], x[5], x[6]>>
DAbs(x) == <<x[1] * x[1], x[2], x[3], x[4], x[5], x[6]>>

\* -1, 0, 1 as |x| <, =, > |y| for non-zero x, y.
MagCmp(x, y) ==
    IF x[2] # y[2] THEN (IF x[2] < y[2] THEN -1 ELSE 1)
    ELSE BigCmp(Mant(x), Mant(y))

\* x < y
DLess(x, y) ==
    IF x[1] # y[1] THEN x[1] < y[1]
    ELSE IF x[1] = 0 THEN FALSE
    ELSE IF x[1] = 1 THEN MagCmp(x, y) = -1
    ELSE MagCmp(x, y) = 1

DGreater(x, y) == DLess(y, x)

\* x * y
DMul(x, y) ==
    The({ IF IsZero(a) \/ IsZero(b) THEN DZero
          ELSE Round(a[1] * b[1], a[2] + b[2], BigMul(Mant(a), Mant(b)), FALSE)
          : <<a, b>> \in {<<x, y>>} })

\* Beyond this exponent gap the smaller operand is below a quarter of the
\* larger one's last place and the sum rounds to the larger operand.
AddGap == MantBits + LimbBits

\* big + small for non-zero operands with big[2] >= small[2].
AddOrdered(big, small) ==
    IF big[2] - small[2] > AddGap THEN big
    ELSE The({ IF big[1] = small[1]
               THEN Round(big[1], small[2], BigAdd(X, Y), FALSE)
               ELSE IF c = 0 THEN DZero
               ELSE IF c = 1 THEN Round(big[1], small[2], BigSub(X, Y), FALSE)
               ELSE Round(small[1], small[2], BigSub(Y, X), FALSE)
               : <<X, Y, c>> \in
                   { <<X0, Mant(small), BigCmp(X0, Mant(small))>>
                     : X0 \in {BigShl(Mant(big), big[2] - small[2])} } })

\* x + y
DAdd(x, y) ==
    The({ IF IsZero(a) THEN b
          ELSE IF IsZero(b) THEN a
          ELSE IF a[2] >= b[2] THEN AddOrdered(a, b)
          ELSE AddOrdered(b, a)
          : <<a, b>> \in {<<x, y>>} })

DSub(x, y) == DAdd(x, DNeg(y))

RECURSIVE ShortDiv(_, _, _, _)
\* <<quotient limbs (little-endian), remainder>> of the limbs N[1..i] with
\* incoming remainder r, divided by the single limb n.
ShortDiv(N, n, i, r) ==
    IF i = 0 THEN <<<<>>, r>>
    ELSE The({ <<rest[1] \o <<t \div n>>, rest[2]>>
               : <<t, rest>> \in
                   { <<t0, ShortDiv(N, n, i - 1, t0 % n)>>
                     : t0 \in {r * Base + N[i]} } })

DivScale == 5 * LimbBits

\* double(k) / double(n) for ints 0 < k, n < 2^13.
DivInt(k, n) ==
    The({ Round(1, -DivScale, qr[1], qr[2] # 0)
          : qr \in {ShortDiv(<<0, 0, 0, 0, 0, k>>, n, 6, 0)} })

\* One step of the bitwise square root: r with bit b set if its square still
\* fits under X.
RootBit(X, r, b) ==
    The({ IF BigCmp(BigMul(c, c), X) <= 0 THEN c ELSE r
          : c \in {[r EXCEPT ![(b \div LimbBits) + 1] = @ + 2 ^ (b % LimbBits)]} })

RECURSIVE RootBits(_, _, _, _)
\* RootBit for the bits hi down to lo, in that order (the range is halved so
\* that the evaluation nests only logarithmically deep).
RootBits(X, r, hi, lo) ==
    IF hi = lo THEN RootBit(X, r, hi)
    ELSE The({ RootBits(X, r1, mid, lo)
               : <<mid, r1>> \in
                   { <<m0, RootBits(X, r, hi, m0 + 1)>>
                     : m0 \in {(hi + lo) \div 2} } })

RootScale == 4 * LimbBits

\* sqrt(x) for x >= 0: the integer square root of the mantissa scaled to 110
\* bits, then rounded; inexact iff the root's square differs.
DSqrt(x) ==
    IF IsZero(x) THEN DZero
    ELSE The({ Round(1, ((x[2] - odd) \div 2) - (RootScale \div 2), r,
                     BigCmp(BigMul(r, r), X) # 0)
               : <<odd, X, r>> \in
                   { <<o0, X0, RootBits(X0, <<0, 0, 0, 0>>, RootScale - 2, 0)>>
                     : <<o0, X0>> \in
                         { <<x[2] % 2, BigShl(Mant(x), RootScale + (x[2] % 2))>> } } })

DMax(x, y) == IF DLess(x, y) THEN y ELSE x


RECURSIVE FoldRange(_, _, _, _)
\* F(... F(F(acc, lo), lo + 1) ..., hi): a loop over lo..hi in ascending order.
\* The range is halved so that the evaluation nests only logarithmically deep.
FoldRange(F(_, _), acc, lo, hi) ==
    IF lo > hi THEN acc
    ELSE IF lo = hi THEN F(acc, lo)
    ELSE The({ FoldRange(F, a, mid + 1, hi)
               : <<mid, a>> \in
                   { <<m0, FoldRange(F, acc, lo, m0)>> : m0 \in {(lo + hi) \div 2} } })

\* a < b in the lexicographic order of equally long tuples of integers.
LexLess(a, b) ==
    \E i \in 1..Len(a) : a[i] < b[i] /\ \A j \in 1..(i - 1) : a[j] = b[j]

\* The sequence of the elements of the set S of tuples, ascending: the order in
\* which std::sort leaves a vector and in which a std::map is iterated.
SortedSeq(S) ==
    The({ [i \in 1..Cardinality(S) |-> CHOOSE x \in S : rank[x] = i - 1]
          : rank \in {[x \in S |-> Cardinality({y \in S : LexLess(y, x)})]} })

(***************************************************************************)
(* The sprint: decathlon_100m_precompute.cpp                               *)
(***************************************************************************)
\* The state of the sprint precomputer: its globals, the driver's position
\* (spc, di) and what the run is audited for (ran, audit, last_call).
VARIABLES FOUR_OUTS, memo, spc, di, ran, audit, last_call
\* The state of the long jump precomputer: its globals, the call stack of the
\* two solvers, main's position (jpc) and what the run is audited for.
VARIABLES outcomes_cache, memo_runup, memo_jump, best_runup_freeze,
          best_jump_freeze, stack, jpc, attemptM, runup_calls, jaudit, last_rec

\* The number of steps the run has taken.
VARIABLE steps

sprint_vars == <<FOUR_OUTS, memo, spc, di, ran, audit, last_call>>

jump_vars == <<outcomes_cache, memo_runup, memo_jump, best_runup_freeze,
               best_jump_freeze, stack, jpc, attemptM, runup_calls, jaudit, last_rec>>


\* Dice per scored set.  The program fixes 4 (array<int,4>); the solver is
\* checked with fewer dice, which keeps every rule of the event.
NDice == 2
\* Highest reroll budget the driver enumerates (the program: 5).
MaxRerolls == 1
NULL_SCORE == 7777
SIDES == <<1, 2, 3, 4, 5, 6>>

\* A state is <<stage, rerolls, dice, set1_score>>, the moments <<ev, ev2>>.
Moments(ev, ev2) == <<ev, ev2>>
StateOf(stage, rerolls, dice, set1_score) == <<stage, rerolls, dice, set1_score>>

\* The sum of the faces, a 6 counted as 6.
score_set_no_reversal(d) ==
    FoldRange(LAMBDA s, i : s + d[i], 0, 1, Len(d))

score_set(d) ==
    FoldRange(LAMBDA s, i : s + (IF d[i] = 6 THEN -6 ELSE d[i]), 0, 1, Len(d))

\* std::sort of one roll.
SortDice(t) ==
    [i \in 1..Len(t) |->
        CHOOSE v \in 1..6 :
            /\ Cardinality({j \in 1..Len(t) : t[j] < v}) < i
            /\ i <= Cardinality({j \in 1..Len(t) : t[j] <= v})]

\* The vector ensure_four_outs leaves for nd dice: every roll sorted, the
\* vector sorted and its duplicates erased.
four_outs(nd) == SortedSeq({SortDice(t) : t \in [1..nd -> {SIDES[k] : k \in 1..6}]})

combine_avg(ms) ==
    The({ FoldRange(LAMBDA a, i : Moments(DAdd(a[1], DMul(w, ms[i][1])),
                                          DAdd(a[2], DMul(w, ms[i][2]))),
                    Moments(DZero, DZero), 1, Len(ms))
          : w \in {DivInt(1, Len(ms))} })

\* The lambda sd of solve_state.
sd(m) == DSqrt(DMax(DZero, DSub(m[2], DMul(m[1], m[1]))))

\* The literal 1e-12.
TOL == <<1, -92, 1125, 14744, 1207, 10769>>

\* The choice with the EV comparison turned round.
choose_best_lower_ev(freeze_m, reroll_m) ==
    IF reroll_m # <<>> /\ DLess(reroll_m[1][1], freeze_m[1])
    THEN <<reroll_m[1], "reroll">>
    ELSE <<freeze_m, "freeze">>

\* Lines 81-87: <<best, best_action>>; reroll_m is <<>> or <<moments>>.
choose_best(freeze_m, reroll_m) ==
    IF /\ reroll_m # <<>>
       /\ \/ DGreater(reroll_m[1][1], freeze_m[1])
          \/ /\ DLess(DAbs(DSub(reroll_m[1][1], freeze_m[1])), TOL)
             /\ DLess(sd(reroll_m[1]), sd(freeze_m))
    THEN <<reroll_m[1], "reroll">>
    ELSE <<freeze_m, "freeze">>

SolveRes(best, freeze_m, reroll_m, best_action) ==
    [best |-> best, freeze_m |-> freeze_m, reroll_m |-> reroll_m,
     best_action |-> best_action]

NoRes == SolveRes(Moments(DZero, DZero), Moments(DZero, DZero), <<>>, "none")

\* A memo that stores nothing.
emplace_nothing(m, s, res) == m

\* memo.emplace(s, res): inserts only if the key is absent.
emplace(m, s, res) == IF s \in DOMAIN m THEN m ELSE m @@ (s :> res)

\* A reroll that does not use up the budget.
reroll_child_same_budget(s, r) == StateOf(s[1], s[2], SortDice(r), s[4])

\* The child a reroll leads to (line 73).
reroll_child(s, r) == StateOf(s[1], s[2] - 1, SortDice(r), s[4])

\* The child freezing a stage-1 state leads to (line 61).
freeze_child(s, r) == StateOf(2, s[2], SortDice(r), score_set(s[3]))

\* c comes after p in the order of the recursion: a later stage, or the same
\* stage with a smaller reroll budget.
Smaller(c, p) == c[1] > p[1] \/ (c[1] = p[1] /\ c[2] < p[2])

(***************************************************************************)
(* solve_state, with the memo threaded through the recursion.  h holds the *)
(* memo and what the run is audited for:                                   *)
(*   ran        the states whose non-cached body has run                   *)
(*   reran      a body ran for a state of ran                              *)
(*   reentered  a call was made on a state whose solve was in progress     *)
(*              (the model makes no further recursive call after that)     *)
(*   unordered  a recursive call was made on a state not Smaller           *)
(*   ncalls     the recursive calls made                                   *)
(*   ret        the value returned                                         *)
(***************************************************************************)
RECURSIVE solve_state(_, _, _, _)

\* One recursive call solve_state(c) made by the body of p.
call_child(outs, h, p, c, path) ==
    The({ IF c \in path \/ g.reentered
          THEN [g EXCEPT !.reentered = TRUE, !.ret = NoRes]
          ELSE solve_state(outs, g, c, path \cup {c})
          : g \in {[h EXCEPT !.ncalls = @ + 1,
                             !.unordered = @ \/ ~Smaller(c, p)]} })

\* for(auto r: FOUR_OUTS){ child = solve_state(child_of(r)); kids.push_back(child.best); }
\* as <<h, kids>>.
solve_kids(outs, h, p, child_of(_), path) ==
    FoldRange(LAMBDA a, i :
                  The({ <<g, Append(a[2], g.ret.best)>>
                        : g \in {call_child(outs, a[1], p, child_of(outs[i]), path)} }),
              <<h, <<>>>>, 1, Len(outs))

\* Lines 51-65 as <<h, freeze_m>>.
freeze_part(outs, h, s, path) ==
    IF s[1] = 2
    THEN The({ <<h, Moments(FromInt(total), DMul(FromInt(total), FromInt(total)))>>
               : total \in {s[4] + score_set(s[3])} })
    ELSE The({ <<hk[1], combine_avg(hk[2])>>
               : hk \in {solve_kids(outs, h, s, LAMBDA r : freeze_child(s, r), path)} })

\* Lines 67-77 as <<h, reroll_m>>.
reroll_part(outs, h, s, path) ==
    IF s[2] > 0
    THEN The({ <<hk[1], <<combine_avg(hk[2])>>>>
               : hk \in {solve_kids(outs, h, s, LAMBDA r : reroll_child(s, r), path)} })
    ELSE <<h, <<>>>>

solve_state(outs, h, s, path) ==
    IF s \in DOMAIN h.memo THEN [h EXCEPT !.ret = h.memo[s]]
    ELSE The({ [hr[1] EXCEPT !.memo = emplace(@, s, res), !.ret = res]
               : <<hr, res>> \in
                   { <<hr0, SolveRes(bb[1], hf[2], hr0[2], bb[2])>>
                     : <<hf, hr0, bb>> \in
                         { <<hf0, hr1, choose_best(hf0[2], hr1[2])>>
                           : <<hf0, hr1>> \in
                               { <<hf1, reroll_part(outs, hf1[1], s, path)>>
                                 : hf1 \in
                                     { freeze_part(outs,
                                                   [h EXCEPT !.reran = @ \/ s \in h.ran,
                                                             !.ran = @ \cup {s}],
                                                   s, path) } } } } })

\* The range of set1_score the driver enumerates (the program, with 4 dice:
\* -24..20).
S1Lo == -6 * NDice
S1Hi == 5 * NDice

\* The vector all of main, from the outcomes outs.
all_states(outs) ==
    [i \in 1..((MaxRerolls + 1) * Len(outs)) |->
        StateOf(1, (i - 1) \div Len(outs), outs[((i - 1) % Len(outs)) + 1], NULL_SCORE)]
    \o
    [i \in 1..((MaxRerolls + 1) * Len(outs) * (S1Hi - S1Lo + 1)) |->
        StateOf(2,
                (i - 1) \div (Len(outs) * (S1Hi - S1Lo + 1)),
                outs[(((i - 1) \div (S1Hi - S1Lo + 1)) % Len(outs)) + 1],
                S1Lo + ((i - 1) % (S1Hi - S1Lo + 1)))]

ALL == all_states(four_outs(NDice))

NoAudit == [reran |-> FALSE, reentered |-> FALSE, unordered |-> FALSE]

SprintInit ==
    /\ FOUR_OUTS = <<>>
    /\ memo = <<>>
    /\ spc = "start"
    /\ di = 1
    /\ ran = {}
    /\ audit = NoAudit
    /\ last_call = [s |-> <<>>, hit |-> FALSE, ncalls |-> 0, res |-> NoRes]

\* main: ensure_four_outs() and the enumeration of all.
EnsureFourOuts ==
    /\ spc = "start"
    /\ FOUR_OUTS' = IF FOUR_OUTS # <<>> THEN FOUR_OUTS ELSE four_outs(NDice)
    /\ spc' = "solve"
    /\ UNCHANGED <<memo, di, ran, audit, last_call>>
    /\ UNCHANGED jump_vars
    /\ steps' = steps + 1

\* main: one iteration of  for(auto& s: all) solve_state(s);
SolveNext ==
    /\ spc = "solve"
    /\ di <= Len(ALL)
    /\ \E h \in { solve_state(FOUR_OUTS,
                              [memo |-> memo, ran |-> ran, reran |-> audit.reran,
                               reentered |-> audit.reentered,
                               unordered |-> audit.unordered,
                               ncalls |-> 0, ret |-> NoRes],
                              ALL[di], {ALL[di]}) } :
          /\ memo' = h.memo
          /\ ran' = h.ran
          /\ audit' = [reran |-> h.reran, reentered |-> h.reentered,
                       unordered |-> h.unordered]
          /\ last_call' = [s |-> ALL[di], hit |-> ALL[di] \in DOMAIN memo,
                           ncalls |-> h.ncalls, res |-> h.ret]
    /\ di' = di + 1
    /\ UNCHANGED <<FOUR_OUTS, spc>>
    /\ UNCHANGED jump_vars
    /\ steps' = steps + 1

\* main: the loop is over; the memo goes to the database.
SprintDone ==
    /\ spc = "solve"
    /\ di > Len(ALL)
    /\ spc' = "done"
    /\ UNCHANGED <<FOUR_OUTS, memo, di, ran, audit, last_call>>
    /\ UNCHANGED jump_vars
    /\ steps' = steps + 1

SprintNext == EnsureFourOuts \/ SolveNext \/ SprintDone

(***************************************************************************)
(* The long jump: longjump_precompute.cpp                                  *)
(***************************************************************************)

POOL == 5
CEILING == 8
\* The literals -1e100 and 2.0.
NEG_HUGE == <<-1, 280, 1170, 6866, 5715, 893>>
TWO == <<1, -51, 1024, 0, 0, 0>>

\* Counts are <<c1, ..., c6>>.
ZeroCounts == <<0, 0, 0, 0, 0, 0>>

\* rec of build_outcomes: m[a] += 1.0/total at every leaf, m a map whose
\* absent entries read 0.0; w is 1.0/total.
RECURSIVE rec(_, _, _, _)
rec(left, a, m, w) ==
    IF left = 0
    THEN (IF a \in DOMAIN m THEN [m EXCEPT ![a] = DAdd(@, w)]
                            ELSE m @@ (a :> DAdd(DZero, w)))
    ELSE FoldRange(LAMBDA mm, face : rec(left - 1, [a EXCEPT ![face] = @ + 1], mm, w),
                   m, 1, 6)

\* pow(6, n) landing just below the power and truncated by the conversion.
leaf_weight_one_sided(n) == DivInt(1, 6 ^ n - 1)

\* The probability a leaf adds: 1.0/total, total = pow(6, n).
leaf_weight(n) == DivInt(1, 6 ^ n)

\* outcomes_cache[n] as build_outcomes leaves it: the map's entries in the
\* order of its keys.
build_outcomes_n(n) ==
    The({ [i \in 1..Len(keys) |-> <<keys[i], m[keys[i]]>>]
          : <<m, keys>> \in
              { <<m0, SortedSeq(DOMAIN m0)>>
                : m0 \in {rec(n, ZeroCounts, <<>>, leaf_weight(n))} } })

\* The loops of lines 96-100 and 125-129: the sum of the dice taken, going
\* through the faces from face in steps of step while dice are needed.
RECURSIVE take_dice(_, _, _, _)
take_dice(cnt, face, step, needed) ==
    IF face < 1 \/ face > 6 \/ needed <= 0 THEN 0
    ELSE The({ face * take + take_dice(cnt, face + step, step, needed - take)
               : take \in {Min2(cnt[face], needed)} })

frozen_largest(cnt, freeze_count) == take_dice(cnt, 6, -1, freeze_count)
frozen_smallest(cnt, freeze_count) == take_dice(cnt, 1, 1, freeze_count)

\* No ceiling.
within_ceiling_always(s, frozen_sum) == TRUE

\* Line 130.
within_ceiling(s, frozen_sum) == ~(s + frozen_sum > CEILING)

\* A call that returns at once: lines 86-87 and 113-114.
jump_ready(n) == n = 0 \/ n \in DOMAIN memo_jump
jump_value(n) == IF n = 0 THEN Moments(DZero, DZero) ELSE memo_jump[n]
runup_ready(n, s) == s > CEILING \/ <<n, s>> \in DOMAIN memo_runup
runup_value(n, s) == IF s > CEILING THEN Moments(DZero, DZero) ELSE memo_runup[<<n, s>>]

\* The callee of freeze_count in the two solvers (lines 101 and 131).
jump_tail(n_rem, freeze_count) == n_rem - freeze_count

runup_tail(n_rem, freeze_count) == n_rem - freeze_count

\* Lines 102-103.
jump_moments(frozen_sum, tail) ==
    Moments(DAdd(FromInt(frozen_sum), tail[1]),
            DAdd(DAdd(FromInt(frozen_sum * frozen_sum),
                      DMul(DMul(TWO, FromInt(frozen_sum)), tail[1])),
                 tail[2]))

\* The candidates of one rolled outcome in the order the loop meets them.
jump_cands(n_rem, cnt) ==
    [fc \in 1..n_rem |->
        [fc |-> fc,
         m |-> jump_moments(frozen_largest(cnt, fc), jump_value(jump_tail(n_rem, fc)))]]

runup_loop_cands(n_rem, s, cnt) ==
    SelectSeq([fc \in 1..n_rem |->
                  IF within_ceiling(s, frozen_smallest(cnt, fc))
                  THEN [fc |-> fc,
                        m |-> runup_value(runup_tail(n_rem, fc),
                                          s + frozen_smallest(cnt, fc))]
                  ELSE [fc |-> -1, m |-> Moments(DZero, DZero)]],
              LAMBDA c : c.fc # -1)

\* The comparison turned round.
pick_lowest(start, cands) ==
    FoldRange(LAMBDA b, i : IF DLess(cands[i].m[1], b.m[1]) THEN cands[i] ELSE b,
              start, 1, Len(cands))

\* if(e > best_ev){ best = e; best_fc = freeze_count; } over the candidates.
pick(start, cands) ==
    FoldRange(LAMBDA b, i : IF DGreater(cands[i].m[1], b.m[1]) THEN cands[i] ELSE b,
              start, 1, Len(cands))

\* The first freeze_count whose callee has yet to run its body; 0 if none.
first_of(F) == IF F = {} THEN 0 ELSE CHOOSE x \in F : \A y \in F : x <= y

jump_missing(n_rem, cnt) ==
    first_of({fc \in 1..n_rem : ~jump_ready(jump_tail(n_rem, fc))})

runup_missing(n_rem, s, cnt) ==
    first_of({fc \in 1..n_rem :
                 /\ within_ceiling(s, frozen_smallest(cnt, fc))
                 /\ ~runup_ready(runup_tail(n_rem, fc), s + frozen_smallest(cnt, fc))})

Frame(fn, n_rem, s, at) ==
    [fn |-> fn, n_rem |-> n_rem, s |-> s, at |-> at, idx |-> 1,
     ev |-> DZero, ev2 |-> DZero, stopM |-> Moments(DZero, DZero)]

Top == stack[Len(stack)]
Running == jpc = "running" /\ stack # <<>>
\* The outcome the loop of the top frame is at.
Cur == outcomes_cache[Top.n_rem][Top.idx]
InLoop == Running /\ Top.at = "loop" /\ Top.idx <= Len(outcomes_cache[Top.n_rem])

\* The call the top frame is about to make whose body has to run, as
\* <<fn, n_rem, s>>; <<>> if there is none.
Callee ==
    IF ~Running THEN <<>>
    ELSE IF Top.at = "stop"
    THEN (IF jump_ready(POOL - Top.n_rem) THEN <<>> ELSE <<"jump", POOL - Top.n_rem, 0>>)
    ELSE IF ~InLoop THEN <<>>
    ELSE IF Top.fn = "jump"
    THEN (IF jump_missing(Top.n_rem, Cur[1]) = 0 THEN <<>>
          ELSE <<"jump", jump_tail(Top.n_rem, jump_missing(Top.n_rem, Cur[1])), 0>>)
    ELSE (IF runup_missing(Top.n_rem, Top.s, Cur[1]) = 0 THEN <<>>
          ELSE <<"runup",
                 runup_tail(Top.n_rem, runup_missing(Top.n_rem, Top.s, Cur[1])),
                 Top.s + frozen_smallest(Cur[1], runup_missing(Top.n_rem, Top.s, Cur[1]))>>)

OnStack(c) ==
    \E i \in 1..Len(stack) :
        stack[i].fn = c[1] /\ stack[i].n_rem = c[2] /\ stack[i].s = c[3]

NoRec == [phase |-> "none", n_rem |-> 0, s |-> 0, cnt |-> ZeroCounts,
          cands |-> <<>>, fc |-> 0, best |-> Moments(DZero, DZero)]

JumpInit ==
    /\ outcomes_cache = [n \in 0..POOL |-> <<>>]
    /\ memo_runup = <<>>
    /\ memo_jump = <<>>
    /\ best_runup_freeze = <<>>
    /\ best_jump_freeze = <<>>
    /\ stack = <<>>
    /\ jpc = "start"
    /\ attemptM = Moments(DZero, DZero)
    /\ runup_calls = {}
    /\ jaudit = [reentered |-> FALSE, unordered |-> FALSE]
    /\ last_rec = NoRec

\* main: build_outcomes();
BuildOutcomes ==
    /\ jpc = "start"
    /\ outcomes_cache' = [n \in 0..POOL |-> IF n = 0 THEN <<>> ELSE build_outcomes_n(n)]
    /\ jpc' = "built"
    /\ UNCHANGED <<memo_runup, memo_jump, best_runup_freeze, best_jump_freeze,
                   stack, attemptM, runup_calls, jaudit, last_rec>>
    /\ UNCHANGED sprint_vars
    /\ steps' = steps + 1

\* main: the call solve_runup_pre(5,0), up to line 115.
CallRoot ==
    /\ jpc = "built"
    /\ stack' = <<Frame("runup", POOL, 0, "stop")>>
    /\ runup_calls' = runup_calls \cup {<<POOL, 0>>}
    /\ jpc' = "running"
    /\ UNCHANGED <<outcomes_cache, memo_runup, memo_jump, best_runup_freeze,
                   best_jump_freeze, attemptM, jaudit, last_rec>>
    /\ UNCHANGED sprint_vars
    /\ steps' = steps + 1

\* Line 116 when solve_jump_pre(k) returns at once.
StopValue ==
    /\ Running
    /\ Top.at = "stop"
    /\ jump_ready(POOL - Top.n_rem)
    /\ stack' = [stack EXCEPT ![Len(stack)] =
                    [@ EXCEPT !.at = "loop", !.stopM = jump_value(POOL - Top.n_rem)]]
    /\ UNCHANGED <<outcomes_cache, memo_runup, memo_jump, best_runup_freeze,
                   best_jump_freeze, jpc, attemptM, runup_calls, jaudit, last_rec>>
    /\ UNCHANGED sprint_vars
    /\ steps' = steps + 1

\* A call whose body has to run: lines 101, 116 and 131 on a state not yet
\* memoized.  A call on a state whose solve is in progress is recorded in
\* jaudit and the run is stopped there.
Descend ==
    /\ Callee # <<>>
    /\ jaudit' = [reentered |-> jaudit.reentered \/ OnStack(Callee),
                  unordered |-> jaudit.unordered
                                \/ (Top.at = "loop" /\ ~(Callee[2] < Top.n_rem))]
    /\ IF OnStack(Callee)
       THEN stack' = stack /\ jpc' = "stuck"
       ELSE /\ stack' = Append(stack, Frame(Callee[1], Callee[2], Callee[3],
                                            IF Callee[1] = "runup" THEN "stop" ELSE "loop"))
            /\ jpc' = jpc
    /\ runup_calls' = IF Callee[1] = "runup"
                      THEN runup_calls \cup {<<Callee[2], Callee[3]>>}
                      ELSE runup_calls
    /\ UNCHANGED <<outcomes_cache, memo_runup, memo_jump, best_runup_freeze,
                   best_jump_freeze, attemptM, last_rec>>
    /\ UNCHANGED sprint_vars
    /\ steps' = steps + 1

\* One iteration of the loop over outcomes_cache[n_rem] (lines 89-108 and
\* 118-136), every call it makes returning at once.
Outcome ==
    /\ InLoop
    /\ Callee = <<>>
    /\ \E o \in { IF Top.fn = "jump"
                  THEN [cands |-> jump_cands(Top.n_rem, Cur[1]),
                        start |-> [fc |-> 1, m |-> Moments(NEG_HUGE, DZero)]]
                  ELSE [cands |-> <<[fc |-> 0, m |-> Top.stopM]>>
                                  \o runup_loop_cands(Top.n_rem, Top.s, Cur[1]),
                        start |-> [fc |-> 0, m |-> Top.stopM]] } :
       \E b \in {pick(o.start, o.cands)} :
          /\ IF Top.fn = "jump"
             THEN /\ best_jump_freeze' = (Cur[1] :> b.fc) @@ best_jump_freeze
                  /\ UNCHANGED <<best_runup_freeze, runup_calls>>
             ELSE /\ best_runup_freeze' = (<<Top.s, Cur[1]>> :> b.fc) @@ best_runup_freeze
                  /\ runup_calls' = runup_calls \cup
                        {<<runup_tail(Top.n_rem, fc), Top.s + frozen_smallest(Cur[1], fc)>>
                         : fc \in {f \in 1..Top.n_rem :
                                      within_ceiling(Top.s, frozen_smallest(Cur[1], f))}}
                  /\ UNCHANGED best_jump_freeze
          /\ stack' = [stack EXCEPT ![Len(stack)] =
                          [@ EXCEPT !.idx = @ + 1,
                                    !.ev = DAdd(@, DMul(Cur[2], b.m[1])),
                                    !.ev2 = DAdd(@, DMul(Cur[2], b.m[2]))]]
          /\ last_rec' = [phase |-> Top.fn, n_rem |-> Top.n_rem, s |-> Top.s,
                          cnt |-> Cur[1], cands |-> o.cands, fc |-> b.fc, best |-> b.m]
          /\ jaudit' = [jaudit EXCEPT !.unordered =
                           @ \/ \E fc \in 1..Top.n_rem :
                                   ~((IF Top.fn = "jump" THEN jump_tail(Top.n_rem, fc)
                                      ELSE runup_tail(Top.n_rem, fc)) < Top.n_rem)]
    /\ UNCHANGED <<outcomes_cache, memo_runup, memo_jump, jpc, attemptM>>
    /\ UNCHANGED sprint_vars
    /\ steps' = steps + 1

\* Lines 109 and 137: the loop is over, the result is memoized and returned.
Return ==
    /\ Running
    /\ Top.at = "loop"
    /\ Top.idx > Len(outcomes_cache[Top.n_rem])
    /\ IF Top.fn = "jump"
       THEN /\ memo_jump' = (Top.n_rem :> Moments(Top.ev, Top.ev2)) @@ memo_jump
            /\ UNCHANGED memo_runup
       ELSE /\ memo_runup' = (<<Top.n_rem, Top.s>> :> Moments(Top.ev, Top.ev2)) @@ memo_runup
            /\ UNCHANGED memo_jump
    /\ stack' = SubSeq(stack, 1, Len(stack) - 1)
    /\ IF Len(stack) = 1
       THEN attemptM' = Moments(Top.ev, Top.ev2) /\ jpc' = "done"
       ELSE UNCHANGED <<attemptM, jpc>>
    /\ UNCHANGED <<outcomes_cache, best_runup_freeze, best_jump_freeze,
                   runup_calls, jaudit, last_rec>>
    /\ UNCHANGED sprint_vars
    /\ steps' = steps + 1

JumpNext == BuildOutcomes \/ CallRoot \/ StopValue \/ Descend \/ Outcome \/ Return

(***************************************************************************)
(* The two precomputers are separate programs.  SpecSprint and SpecJump    *)
(* run one of them; Spec runs the sprint precomputer and then the long     *)
(* jump precomputer, as a batch that fills both databases does.            *)
(***************************************************************************)
vars == <<sprint_vars, jump_vars, steps>>

Init == SprintInit /\ JumpInit /\ steps = 0

SpecSprint == Init /\ [][SprintNext]_vars
SpecJump == Init /\ [][JumpNext]_vars

\* The batch starts the long jump precomputer when the sprint's has finished.
StartJump == spc = "done" /\ BuildOutcomes

Next ==
    \/ EnsureFourOuts \/ SolveNext \/ SprintDone
    \/ StartJump \/ CallRoot \/ StopValue \/ Descend \/ Outcome \/ Return

Spec == Init /\ [][Next]_vars

\* Main has a statement left to execute.  Every action is enabled whenever
\* its guard holds, so this is when Next is enabled.
CanStep ==
    \/ spc \in {"start", "solve"}
    \/ spc = "done" /\ jpc \in {"start", "built", "running"}

\* Next, seen through the step counter alone.
Step == CanStep /\ steps' = steps + 1

\* Each program is a single thread that runs until main returns: it takes its
\* next step as long as it has one.
FairSpec == Spec /\ WF_steps(Step)

(***************************************************************************)
(* Properties of the sprint solver.  They are stated on last_call, the     *)
(* call the driver made last: the driver calls solve_state on every state  *)
(* it enumerates, so a property of every last_call is one of every state.  *)
(***************************************************************************)
Called == last_call.s # <<>>

\* |a - b| < 1e-9
EPS == <<1, -82, 1099, 8382, 8347, 5781>>
Close(a, b) == DLess(DAbs(DSub(a, b)), EPS)

\* The number of ordered rolls whose sorted form is the outcome.
Orderings ==
    [o \in {SortDice(t) : t \in [1..NDice -> 1..6]} |->
        Cardinality({t \in [1..NDice -> 1..6] : SortDice(t) = o})]

\* The sum over the canonical outcomes of P(outcome) times the best moments
\* of the state a reroll of s leads to, P(outcome) = orderings / 6^NDice.
WeightedReroll(s) ==
    FoldRange(LAMBDA a, i :
                  The({ Moments(DAdd(a[1], DMul(p, m[1])), DAdd(a[2], DMul(p, m[2])))
                        : <<p, m>> \in
                            { <<DivInt(Orderings[FOUR_OUTS[i]], 6 ^ NDice),
                                memo[reroll_child(s, FOUR_OUTS[i])].best>> } }),
              Moments(DZero, DZero), 1, Len(FOUR_OUTS))

\* C1: for every state with reroll budget r > 0 the reroll moments equal the
\* sum over the canonical outcomes of P(outcome) times the best moments of the
\* state with the same stage and carried score, budget r - 1 and those dice,
\* P(outcome) being the outcome's number of orderings over 6^NDice.
C1_RerollWeightedByProbability ==
    (Called /\ last_call.s[2] > 0) =>
        /\ Close(last_call.res.reroll_m[1][1], WeightedReroll(last_call.s)[1])
        /\ Close(last_call.res.reroll_m[1][2], WeightedReroll(last_call.s)[2])

\* C1, as the code has it: the reroll moments are the plain mean of the best
\* moments over the canonical outcomes, every outcome weighing the same.
C1_RerollIsPlainMean ==
    (Called /\ last_call.s[2] > 0) =>
        last_call.res.reroll_m[1] =
            combine_avg([i \in 1..Len(FOUR_OUTS) |->
                            memo[reroll_child(last_call.s, FOUR_OUTS[i])].best])

\* A stage-2 state with one reroll whose E[X^2] of rerolling is not the
\* probability-weighted one.
C1_Diverges ==
    /\ Called
    /\ last_call.s[1] = 2 /\ last_call.s[2] = 1
    /\ ~Close(last_call.res.reroll_m[1][2], WeightedReroll(last_call.s)[2])

EvTie(f, r) == DLess(DAbs(DSub(r[1], f[1])), TOL)

\* The action the stated rule selects between freeze moments f and reroll
\* moments r.
RuleAction(f, r) ==
    IF EvTie(f, r)
    THEN (IF DLess(sd(r), sd(f)) THEN "reroll" ELSE "freeze")
    ELSE (IF DGreater(r[1], f[1]) THEN "reroll" ELSE "freeze")

\* C2: for every state with rerolls > 0: if |EV_reroll - EV_freeze| < 1e-12
\* the chosen action is the one with the strictly lower SD, freeze when the
\* SDs are equal; otherwise it is the one with the greater EV.
C2_TieBreak ==
    (Called /\ last_call.s[2] > 0) =>
        last_call.res.best_action =
            RuleAction(last_call.res.freeze_m, last_call.res.reroll_m[1])

\* C2, as the code has it: reroll is chosen exactly when its EV is greater,
\* by however little, or when the EVs are within 1e-12 and its SD is lower.
C2_CodeRule ==
    (Called /\ last_call.s[2] > 0) =>
        (last_call.res.best_action = "reroll"
            <=> \/ DGreater(last_call.res.reroll_m[1][1], last_call.res.freeze_m[1])
                \/ /\ EvTie(last_call.res.freeze_m, last_call.res.reroll_m[1])
                   /\ DLess(sd(last_call.res.reroll_m[1]), sd(last_call.res.freeze_m)))

\* A state where reroll is chosen although its EV is within the tolerance of
\* freeze's and its SD is higher.
C2_RerollInsideTolerance ==
    /\ Called
    /\ last_call.s[2] > 0
    /\ EvTie(last_call.res.freeze_m, last_call.res.reroll_m[1])
    /\ DGreater(sd(last_call.res.reroll_m[1]), sd(last_call.res.freeze_m))
    /\ last_call.res.best_action = "reroll"

\* carried score + sum over the dice of (-6 if the die shows 6, else its face)
Total(s) ==
    s[4] + FoldRange(LAMBDA a, i : IF s[3][i] = 6 THEN a - 6 ELSE a + s[3][i],
                     0, 1, Len(s[3]))

\* C3: for every stage-2 state the freeze moments are the point distribution
\* of total = carried score + sum over the dice of (-6 for a 6, else the
\* face): EV = total, E[X^2] = total^2; with budget 0 the reroll moments are
\* absent, the action is "freeze" and the best moments are the freeze moments.
C3_Stage2Freeze ==
    (Called /\ last_call.s[1] = 2) =>
        /\ last_call.res.freeze_m =
               Moments(FromInt(Total(last_call.s)),
                       FromInt(Total(last_call.s) * Total(last_call.s)))
        /\ last_call.s[2] = 0 =>
               /\ last_call.res.reroll_m = <<>>
               /\ last_call.res.best_action = "freeze"
               /\ last_call.res.best = last_call.res.freeze_m

C3_Witness ==
    /\ Called
    /\ last_call.s[1] = 2 /\ last_call.s[2] = 0
    /\ last_call.s[3][NDice] = 6 /\ last_call.s[3][1] < 6
    /\ last_call.s[4] = S1Hi
    /\ last_call.res.best_action = "freeze"

\* C5: the non-cached body of solve_state runs at most once per state; a memo
\* entry, once written, never changes; a solve_state on a solved state returns
\* the stored result, identical to the first, without any recursive call.
C5_Memoized ==
    /\ [](/\ ~audit.reran
          /\ Called => /\ last_call.s \in DOMAIN memo
                       /\ last_call.res = memo[last_call.s]
          /\ (Called /\ last_call.hit) => last_call.ncalls = 0)
    /\ [][\A s \in DOMAIN memo : s \in DOMAIN memo' /\ memo'[s] = memo[s]]_sprint_vars

C5_Witness ==
    /\ Called
    /\ last_call.hit
    /\ last_call.s[2] > 0
    /\ last_call.ncalls = 0
    /\ last_call.res.reroll_m # <<>>

Lower(s) == StateOf(s[1], s[2] - 1, s[3], s[4])

RECURSIVE SmallestSum(_, _)
SmallestSum(cnt, k) ==
    IF k <= 0 \/ cnt = ZeroCounts THEN 0
    ELSE The({ f + SmallestSum([cnt EXCEPT ![f] = @ - 1], k - 1)
               : f \in {CHOOSE g \in 1..6 : cnt[g] > 0 /\ \A h \in 1..(g - 1) : cnt[h] = 0} })

\* C4: throughout the solve started by solve_runup_pre(5,0), every recorded
\* best_runup_freeze[(s, cnt)] = k has s <= 8 and s + (sum of the k smallest
\* dice of cnt) <= 8, solve_runup_pre is never invoked with a frozen sum above
\* 8, and a freeze count whose sum would exceed 8 is not among the candidates.
C4_Ceiling ==
    /\ \A c \in runup_calls : c[2] <= 8
    /\ last_rec.phase = "runup" =>
          /\ last_rec.s <= 8
          /\ last_rec.s + SmallestSum(last_rec.cnt, last_rec.fc) <= 8
          /\ \A i \in 1..Len(last_rec.cands) :
                last_rec.s + SmallestSum(last_rec.cnt, last_rec.cands[i].fc) <= 8
          /\ <<last_rec.s, last_rec.cnt>> \in DOMAIN best_runup_freeze
          /\ best_runup_freeze[<<last_rec.s, last_rec.cnt>>] = last_rec.fc
    /\ jpc = "done" =>
          \A k \in DOMAIN best_runup_freeze :
              k[1] <= 8 /\ k[1] + SmallestSum(k[2], best_runup_freeze[k]) <= 8

\* A freeze was recorded that reaches the ceiling exactly while a larger
\* freeze count was left out of the search.
C4_Witness ==
    /\ last_rec.phase = "runup"
    /\ last_rec.fc > 0
    /\ last_rec.s + SmallestSum(last_rec.cnt, last_rec.fc) = 8
    /\ Len(last_rec.cands) < last_rec.n_rem + 1
    /\ \E c \in runup_calls : c[2] = 8

\* Candidate a is selected over candidate b by the rule: greater EV; on an
\* EV tie the lower SD; on a full tie the smaller freeze count (stop is 0).
Beats(a, b) ==
    IF EvTie(a.m, b.m)
    THEN DLess(sd(a.m), sd(b.m)) \/ (sd(a.m) = sd(b.m) /\ a.fc < b.fc)
    ELSE DGreater(a.m[1], b.m[1])

\* C9: for every rolled outcome of the run-up and of the jump, the recorded
\* freeze count is the one the selection rule picks among the legal actions.
C9_SelectionRule ==
    last_rec.phase # "none" =>
        \E i \in 1..Len(last_rec.cands) :
            /\ last_rec.cands[i].fc = last_rec.fc
            /\ last_rec.cands[i].m = last_rec.best
            /\ \A j \in 1..Len(last_rec.cands) :
                  j # i => Beats(last_rec.cands[i], last_rec.cands[j])

C9_Witness ==
    /\ last_rec.phase = "runup"
    /\ last_rec.fc = 2
    /\ Len(last_rec.cands) >= 4
    /\ best_runup_freeze[<<last_rec.s, last_rec.cnt>>] = 2
    /\ \E c \in DOMAIN best_jump_freeze : best_jump_freeze[c] > 1

\* C10: for every run-up state (n_rem, s) solved by solve_runup_pre, n_rem = 0
\* included, the memoized EV is at least the EV of stopping, the EV of
\* solve_jump_pre(5 - n_rem) (up to 1e-9 of rounding).
C10_StopIsFloor ==
    \A k \in DOMAIN memo_runup :
        ~DLess(memo_runup[k][1], DSub(jump_value(POOL - k[1])[1], EPS))

\* C10, as the code has it: the memoized EV is at least the EV of stopping in
\* the states that have dice left to roll; with none left it is 0.
C10_StopIsFloorWithDiceLeft ==
    \A k \in DOMAIN memo_runup :
        IF k[1] > 0
        THEN ~DLess(memo_runup[k][1], DSub(jump_value(POOL - k[1])[1], EPS))
        ELSE memo_runup[k] = Moments(DZero, DZero)

\* All five dice frozen within the ceiling are worth nothing to the solver,
\* while jumping with five dice is worth more than 24.
C10_FrozenPoolWorthNothing ==
    /\ <<0, 5>> \in DOMAIN memo_runup
    /\ memo_runup[<<0, 5>>] = Moments(DZero, DZero)
    /\ 5 \in DOMAIN memo_jump
    /\ DGreater(memo_jump[5][1], FromInt(24))

(***************************************************************************)
(* Properties of both programs.                                            *)
(***************************************************************************)
RECURSIVE Fact(_)
Fact(n) == IF n <= 1 THEN 1 ELSE n * Fact(n - 1)
Binom(n, k) == Fact(n) \div (Fact(k) * Fact(n - k))
\* The number of orderings of the multiset with the counts cnt.
Multinomial(cnt) ==
    Fact(cnt[1] + cnt[2] + cnt[3] + cnt[4] + cnt[5] + cnt[6])
        \div (Fact(cnt[1]) * Fact(cnt[2]) * Fact(cnt[3])
              * Fact(cnt[4]) * Fact(cnt[5]) * Fact(cnt[6]))
\* The multisets of n faces, as counts.
Multisets(n) ==
    {c \in [1..6 -> 0..n] : c[1] + c[2] + c[3] + c[4] + c[5] + c[6] = n}
\* The sorted tuples of nd faces.
SortedTuples(nd) ==
    {t \in [1..nd -> 1..6] : \A i \in 1..(nd - 1) : t[i] <= t[i + 1]}
ONE == <<1, -52, 1024, 0, 0, 0>>

IsRollDistribution(oc, n) ==
    /\ Len(oc) = Binom(n + 5, 5)
    /\ {oc[i][1] : i \in 1..Len(oc)} = Multisets(n)
    /\ Cardinality(Multisets(n)) = Len(oc)
    /\ \A i \in 1..Len(oc) : Close(oc[i][2], DivInt(Multinomial(oc[i][1]), 6 ^ n))
    /\ Close(FoldRange(LAMBDA a, i : DAdd(a, oc[i][2]), DZero, 1, Len(oc)), ONE)

IsSortedOutcomes(outs, nd) ==
    /\ Len(outs) = Binom(nd + 5, 5)
    /\ {outs[i] : i \in 1..Len(outs)} = SortedTuples(nd)
    /\ Cardinality(SortedTuples(nd)) = Len(outs)

\* What ensure_four_outs leaves with the program's four dice.
FourDiceOutcomes == four_outs(4)

\* C8: for every n in 1..5 build_outcomes produces the distribution of an
\* unordered roll of n dice: each multiset once (C(n+5,5) entries: 6, 21, 56,
\* 126, 252), with probability orderings / 6^n, the probabilities summing to 1
\* (both within 1e-9); and ensure_four_outs produces exactly the distinct
\* sorted tuples, each once (126 of them for four dice).
C8_Outcomes ==
    /\ <<Binom(6, 5), Binom(7, 5), Binom(8, 5), Binom(9, 5), Binom(10, 5)>>
           = <<6, 21, 56, 126, 252>>
    /\ jpc # "start" => \A n \in 1..POOL : Len(outcomes_cache[n]) = Binom(n + 5, 5)
    /\ jpc = "built" => \A n \in 1..POOL : IsRollDistribution(outcomes_cache[n], n)
    /\ spc # "start" => Len(FOUR_OUTS) = Binom(NDice + 5, 5)
    /\ (spc = "solve" /\ di = 1) => IsSortedOutcomes(FOUR_OUTS, NDice)
    /\ Len(FourDiceOutcomes) = 126
    /\ IsSortedOutcomes(FourDiceOutcomes, 4)

C8_Witness ==
    /\ jpc = "built"
    /\ Len(outcomes_cache[5]) = 252
    /\ outcomes_cache[5][1][1] = <<0, 0, 0, 0, 0, 5>>
    /\ \E i \in 1..252 : outcomes_cache[5][i][1] = <<1, 1, 1, 1, 1, 0>>
                         /\ Close(outcomes_cache[5][i][2], DivInt(120, 7776))
    /\ spc = "done"
    /\ FOUR_OUTS[1] = [i \in 1..NDice |-> 1]

\* C6: every solve terminates: each recursive call of solve_state is on a
\* state later in the order (stage, then reroll budget), each recursive call
\* of solve_runup_pre and solve_jump_pre is on fewer remaining dice, no state
\* is re-entered while its solve is in progress, and the sprint driver's loop
\* and solve_runup_pre(5,0) eventually complete.
C6_Terminates ==
    /\ [](/\ ~audit.unordered /\ ~audit.reentered
          /\ ~jaudit.unordered /\ ~jaudit.reentered
          /\ \A i, j \in 1..Len(stack) :
                (i < j /\ stack[i].fn = stack[j].fn) => stack[j].n_rem < stack[i].n_rem)
    /\ [][Step]_vars
    /\ <>(spc = "done")
    /\ <>(jpc = "done")

C6_Witness ==
    /\ spc = "done" /\ di = Len(ALL) + 1
    /\ jpc = "done" /\ stack = <<>>
    /\ Cardinality(DOMAIN memo) = Len(ALL)
    /\ <<POOL, 0>> \in DOMAIN memo_runup
    /\ attemptM = memo_runup[<<POOL, 0>>]

=============================================================================
